---- MODULE Spec2Model ----
(***************************************************************************)
(* Model of @hashgraphonline/standards-agent-plugin: the StandardsKit      *)
(* bootstrap wrapper and the OpenConvAIPlugin tool provider.               *)
(*                                                                         *)
(* JavaScript values are tagged records, so that undefined, null, strings, *)
(* booleans and object references stay distinct values.  A string is a     *)
(* sequence of tokens: single characters where the code looks inside the   *)
(* string (the key-type tag), text fragments elsewhere.                    *)
(***************************************************************************)
EXTENDS Integers, Sequences, FiniteSets, TLC

\* ------------------------------------------------------------ bounds

\* initialize() calls made on one StandardsKit instance (they may overlap)
MaxCalls == 2
\* processMessage / getConversationalAgent calls made on the instance
MaxAccesses == 2
\* length of the caller's additionalPlugins list
MaxAdditional == 2
\* length of the exhaustively enumerated key-type tags
MaxTagLen == 5
\* OpenConvAIPlugin.initialize calls made on one plugin instance
MaxPluginInits == 2
\* OpenConvAIPlugin.cleanup calls made on one plugin instance
MaxCleanups == 2

\* ------------------------------------------------------------ values

Undefined == [t |-> "undefined"]
Null == [t |-> "null"]
Str(s) == [t |-> "str", s |-> s]
Bool(b) == [t |-> "bool", b |-> b]
Ref(id) == [t |-> "ref", id |-> id]
Arr(a) == [t |-> "arr", a |-> a]

\* JavaScript truthiness, as `!x` and `x || y` read their operand
Truthy(v) ==
  CASE v.t = "undefined" -> FALSE
    [] v.t = "null" -> FALSE
    [] v.t = "str" -> v.s # <<>>
    [] v.t = "bool" -> v.b
    [] OTHER -> TRUE

\* a || b
Or(a, b) == IF Truthy(a) THEN a ELSE b

DefaultIfFalsy(v, d) == IF Truthy(v) THEN v ELSE d

\* a destructuring default, `{ x = d } = options`: only undefined takes it
Default(v, d) == IF v = Undefined THEN d ELSE v

\* the object with no own properties
NoFields == [k \in {} |-> Undefined]

SpreadIfTruthy(cond, key, val) == IF cond /\ Truthy(val) THEN key :> val ELSE NoFields

\* ...(cond && { key: val }) inside an object literal
Spread(cond, key, val) == IF cond THEN key :> val ELSE NoFields

SeqsUpTo(S, n) == UNION {[1..k -> S] : k \in 0..n}

\* ------------------------------------------------------------ strings

UpperCase == <<"A", "B", "C", "D", "E", "F", "G", "H", "I", "J", "K", "L", "M",
               "N", "O", "P", "Q", "R", "S", "T", "U", "V", "W", "X", "Y", "Z">>
LowerCase == <<"a", "b", "c", "d", "e", "f", "g", "h", "i", "j", "k", "l", "m",
               "n", "o", "p", "q", "r", "s", "t", "u", "v", "w", "x", "y", "z">>

ToLowerChar(ch) ==
  IF \E i \in 1..Len(UpperCase) : UpperCase[i] = ch
  THEN LowerCase[CHOOSE i \in 1..Len(UpperCase) : UpperCase[i] = ch]
  ELSE ch

\* String.prototype.toLowerCase on a sequence of characters
ToLowerCase(s) == [i \in 1..Len(s) |-> ToLowerChar(s[i])]

\* String.prototype.includes
Includes(s, sub) ==
  \E i \in 0..(Len(s) - Len(sub)) : SubSeq(s, i + 1, i + Len(sub)) = sub

ecdsa == <<"e", "c", "d", "s", "a">>

\* ------------------------------------------------------------ key type

\* accountInfo?.key?._type || ''
KeyTypeOf(accountInfo) ==
  LET key == IF accountInfo.t \in {"null", "undefined"} THEN Undefined
             ELSE accountInfo.key
      type == IF key.t \in {"null", "undefined"} THEN Undefined
              ELSE key.type
  IN Or(type, Str(<<>>))

IsEcdsaLowerOnly(keyType) == Includes(keyType.s, ecdsa)

\* keyType?.toLowerCase()?.includes('ecdsa')
IsEcdsa(keyType) == Includes(ToLowerCase(keyType.s), ecdsa)

\* the parser the branch at lines 254-258 calls
ParserFor(accountInfo) ==
  IF IsEcdsa(KeyTypeOf(accountInfo)) THEN "fromStringECDSA"
  ELSE "fromStringED25519"

\* ------------------------------------------------------------ responses

AccountInfo(type) == [t |-> "obj", key |-> [t |-> "obj", type |-> type]]

TagAlphabet == {"E", "c", "D", "s", "A"}

ED25519Tag == <<"E", "D", "2", "5", "5", "1", "9">>
ECDSATag == <<"E", "C", "D", "S", "A", "_", "S", "E", "C", "P", "2", "5", "6",
              "K", "1">>

\* tags seen on the network and near misses of 'ecdsa'
NamedTags ==
  { ED25519Tag, ECDSATag, ecdsa,
    <<"E", "c", "D", "s", "A">>,
    <<"x", "E", "C", "D", "S", "A">>,
    <<"E", "C", "D", "S">>,
    <<"E", "C", "D", "_", "S", "A">>,
    <<"a", "s", "d", "c", "e">> }

\* 'ecdsa' in every mix of letter cases
CaseVariants ==
  {[i \in 1..5 |-> IF i \in up THEN <<"E", "C", "D", "S", "A">>[i] ELSE ecdsa[i]] :
     up \in SUBSET (1..5)}

KeyTags == SeqsUpTo(TagAlphabet, MaxTagLen) \cup NamedTags \cup CaseVariants

\* what requestAccount can resolve to: null, an account without a key, a key
\* without a type tag, and a key with a tag
LookupResponses ==
  {Null, [t |-> "obj", key |-> Undefined], AccountInfo(Undefined)}
    \cup {AccountInfo(Str(tag)) : tag \in KeyTags}

\* the responses of the repository's tests
FewResponses == {AccountInfo(Str(ED25519Tag))}


\* ------------------------------------------------------------ options

AccountA == Str(<<"0.0.12345">>)
KeyA == Str(<<"mock-private-key">>)
ApiKey == Str(<<"sk-test">>)
CustomPreamble == Str(<<"Custom instructions here">>)
CustomPostamble == Str(<<"Additional instructions">>)

\* a StandardsKitOptions bag with only the required fields
BaseOptions ==
  [ accountId |-> AccountA,
    privateKey |-> KeyA,
    network |-> Undefined,
    openAIApiKey |-> ApiKey,
    openAIModelName |-> Undefined,
    verbose |-> Undefined,
    operationalMode |-> Undefined,
    userAccountId |-> Undefined,
    customSystemMessagePreamble |-> Undefined,
    customSystemMessagePostamble |-> Undefined,
    additionalPlugins |-> Undefined,
    stateManager |-> Undefined,
    scheduleUserTransactionsInBytesMode |-> Undefined,
    mirrorNodeConfig |-> Undefined,
    disableLogging |-> Undefined ]

\* bags that differ in the credentials
CredentialBags ==
  { [BaseOptions EXCEPT !.accountId = a, !.privateKey = k] :
      a \in {Str(<<>>), AccountA}, k \in {Str(<<>>), KeyA} }

\* the bags of one instance's lifecycle: the credentials vary, or a state
\* manager is supplied
KitBags ==
  CredentialBags \cup {[BaseOptions EXCEPT !.stateManager = Ref("customStateManager")]}

AdditionalPluginLists ==
  {Undefined} \cup {Arr(l) : l \in SeqsUpTo({Ref("mockPluginA"), Ref("mockPluginB")},
                                            MaxAdditional)}

\* bags that differ in the scalar optional fields
ScalarBags ==
  { [BaseOptions EXCEPT
       !.network = nw, !.openAIModelName = mn, !.verbose = vb,
       !.operationalMode = om, !.userAccountId = ua,
       !.customSystemMessagePreamble = pre, !.customSystemMessagePostamble = post,
       !.scheduleUserTransactionsInBytesMode = sb,
       !.mirrorNodeConfig = mc, !.disableLogging = dl] :
      nw \in {Undefined, Str(<<"mainnet">>)},
      mn \in {Undefined, Str(<<>>), Str(<<"gpt-4o-mini">>)},
      vb \in {Undefined, Bool(TRUE)},
      om \in {Undefined, Str(<<"returnBytes">>)},
      ua \in {Undefined, Str(<<"0.0.99999">>)},
      pre \in {Undefined, Str(<<>>), CustomPreamble},
      post \in {Undefined, Str(<<>>), CustomPostamble},
      sb \in {Undefined, Bool(FALSE)},
      mc \in {Undefined, Ref("mirrorNodeConfig")},
      dl \in {Undefined, Bool(FALSE)} }

\* bags that differ in the plugin list, the state manager and the prompt
PluginBags ==
  { [BaseOptions EXCEPT
       !.additionalPlugins = ap, !.stateManager = sm,
       !.customSystemMessagePreamble = pre, !.userAccountId = ua] :
      ap \in AdditionalPluginLists,
      sm \in {Undefined, Ref("customStateManager")},
      pre \in {Undefined, CustomPreamble},
      ua \in {Undefined, Str(<<"0.0.99999">>)} }

OptionalBags == ScalarBags \cup PluginBags

\* ------------------------------------------------------------ state

VARIABLES
  options,              \* StandardsKit.options
  stateManager,         \* StandardsKit.stateManager
  plugin,               \* StandardsKit.plugin
  conversationalAgent,  \* StandardsKit.conversationalAgent
  pc,                   \* where each initialize() call stands
  awaited,              \* the agent whose initialize() each call awaits
  agents,               \* the HederaConversationalAgent objects constructed
  events,               \* per call: collaborators called, log lines, settlement
  lastSettled,          \* how the latest initialize() call to settle ended
  lastAccess,           \* outcome of the latest processMessage / accessor call
  accesses,             \* number of processMessage / accessor calls made
  hostCalls             \* number of calls made to a host agent's processMessage

kitVars == <<options, stateManager, plugin, conversationalAgent, pc, awaited,
             agents, events, lastSettled, lastAccess, accesses, hostCalls>>

Calls == 1..MaxCalls

Error(message, c) == [t |-> "error", message |-> message, call |-> c]

NotInitializedError ==
  [t |-> "error", message |-> "StandardsKit not initialized. Call initialize() first."]

OwnPlugin == Ref("OpenConvAIPlugin")

\* a constructor that builds no default state manager
ConstructLazy(opts) ==
  /\ options = opts
  /\ stateManager = opts.stateManager
  /\ plugin = OwnPlugin
  /\ conversationalAgent = Undefined
  /\ pc = [c \in Calls |-> "notCalled"]
  /\ awaited = [c \in Calls |-> 0]
  /\ agents = <<>>
  /\ events = [c \in Calls |-> <<>>]
  /\ lastSettled = "none"
  /\ lastAccess = Undefined
  /\ accesses = 0
  /\ hostCalls = 0

\* constructor(options)
Construct(opts) ==
  /\ options = opts
  /\ stateManager = Or(opts.stateManager, Ref("OpenConvaiState"))
  /\ plugin = OwnPlugin
  /\ conversationalAgent = Undefined
  /\ pc = [c \in Calls |-> "notCalled"]
  /\ awaited = [c \in Calls |-> 0]
  /\ agents = <<>>
  /\ events = [c \in Calls |-> <<>>]
  /\ lastSettled = "none"
  /\ lastAccess = Undefined
  /\ accesses = 0
  /\ hostCalls = 0

\* ------------------------------------------------------------ initialize()

HederaCorePlugins == <<Ref("coreAccountPlugin"), Ref("coreHCSPlugin")>>

\* the template literal of lines 266-273
defaultSystemMessage(accountId) ==
  Str(<<"You are a helpful assistant managing Hedera HCS-10 connections and messages.",
        "You are currently operating as agent: ">> \o accountId.s
      \o <<"use this account ID: ">> \o accountId.s
      \o <<"Remember the connection numbers when listing connections, as users might refer to them.">>)

allPluginsCoreFirst(opts, ownPlugin) ==
  <<ownPlugin>> \o HederaCorePlugins \o Default(opts.additionalPlugins, Arr(<<>>)).a

allPlugins(opts, ownPlugin) ==
  <<ownPlugin>> \o Default(opts.additionalPlugins, Arr(<<>>)).a \o HederaCorePlugins

preambleAppended(opts) ==
  IF opts.customSystemMessagePreamble = Undefined
  THEN defaultSystemMessage(opts.accountId)
  ELSE Str(defaultSystemMessage(opts.accountId).s \o opts.customSystemMessagePreamble.s)

\* customSystemMessagePreamble || defaultSystemMessage
preambleOf(opts) ==
  Or(opts.customSystemMessagePreamble, defaultSystemMessage(opts.accountId))

appConfigOwnState(sm) == [stateManager |-> Ref("OpenConvaiState")]

\* appConfig: { stateManager: this.stateManager }
appConfig(sm) == [stateManager |-> sm]

\* the object literal of lines 281-303
agentConfig(opts, ownPlugin, sm) ==
  ("pluginConfig" :> [plugins |-> allPlugins(opts, ownPlugin),
                      appConfig |-> appConfig(sm)])
  @@ ("openAIApiKey" :> opts.openAIApiKey)
  @@ ("openAIModelName" :> Default(opts.openAIModelName, Str(<<"gpt-4o">>)))
  @@ ("verbose" :> Default(opts.verbose, Bool(FALSE)))
  @@ ("operationalMode" :> Default(opts.operationalMode, Str(<<"autonomous">>)))
  @@ ("userAccountId" :> opts.userAccountId)
  @@ ("customSystemMessagePreamble" :> preambleOf(opts))
  @@ Spread(opts.customSystemMessagePostamble # Undefined,
            "customSystemMessagePostamble", opts.customSystemMessagePostamble)
  @@ Spread(opts.scheduleUserTransactionsInBytesMode # Undefined,
            "scheduleUserTransactionsInBytesMode",
            opts.scheduleUserTransactionsInBytesMode)
  @@ Spread(opts.mirrorNodeConfig # Undefined, "mirrorNodeConfig", opts.mirrorNodeConfig)
  @@ Spread(opts.disableLogging # Undefined, "disableLogging", opts.disableLogging)

networkOf(opts) == Default(opts.network, Str(<<"testnet">>))

CredentialsBothMissing(opts) == ~Truthy(opts.accountId) /\ ~Truthy(opts.privateKey)

\* if (!accountId || !privateKey)
CredentialsMissing(opts) == ~Truthy(opts.accountId) \/ ~Truthy(opts.privateKey)

InFlight == {c \in Calls : pc[c] \in {"awaitLookup", "awaitAgentInit"}}

\* the state of the wrapper as its callers see it: Initializing while an
\* initialize() call is suspended, else how the latest call to settle ended
Lifecycle ==
  IF InFlight # {} THEN "Initializing"
  ELSE IF lastSettled = "none" THEN "Constructed"
  ELSE IF lastSettled = "resolved" THEN "Ready"
  ELSE "Failed"

Called == [kind |-> "called", from |-> Lifecycle]

Wrapped(error) ==
  [t |-> "error", message |-> "StandardsKit initialization failed", cause |-> error]

\* the error handed back by `throw error`
Rethrown(error) == error

LogError(error) ==
  [kind |-> "log", level |-> "error",
   message |-> "Failed to initialize StandardsKit:", error |-> error]

Settle(result) == [kind |-> "settled", result |-> result]

\* catch (error) { this.logger.error(...); throw error; }
Catch(error) == <<LogError(error), Settle(Rethrown(error))>>

\* initialize() refusing to run again once a call has rejected
CallInitializeOnce(c) ==
  /\ pc[c] = "notCalled"
  /\ \A d \in Calls : d < c => pc[d] # "notCalled"
  /\ IF CredentialsMissing(options) \/ lastSettled = "rejected"
     THEN /\ pc' = [pc EXCEPT ![c] = "rejected"]
          /\ events' = [events EXCEPT ![c] =
               <<Called, Settle(Error("Account ID and private key are required", c))>>]
          /\ lastSettled' = "rejected"
     ELSE /\ pc' = [pc EXCEPT ![c] = "awaitLookup"]
          /\ events' = [events EXCEPT ![c] =
               <<Called,
                 [kind |-> "requestAccount", network |-> networkOf(options),
                  accountId |-> options.accountId]>>]
          /\ UNCHANGED lastSettled
  /\ UNCHANGED <<options, stateManager, plugin, conversationalAgent, awaited,
                 agents, lastAccess, accesses, hostCalls>>

\* initialize() from its call to the await of the mirror lookup
CallInitialize(c) ==
  /\ pc[c] = "notCalled"
  /\ \A d \in Calls : d < c => pc[d] # "notCalled"
  /\ IF CredentialsMissing(options)
     THEN /\ pc' = [pc EXCEPT ![c] = "rejected"]
          /\ events' = [events EXCEPT ![c] =
               <<Called, Settle(Error("Account ID and private key are required", c))>>]
          /\ lastSettled' = "rejected"
     ELSE /\ pc' = [pc EXCEPT ![c] = "awaitLookup"]
          /\ events' = [events EXCEPT ![c] =
               <<Called,
                 [kind |-> "requestAccount", network |-> networkOf(options),
                  accountId |-> options.accountId]>>]
          /\ UNCHANGED lastSettled
  /\ UNCHANGED <<options, stateManager, plugin, conversationalAgent, awaited,
                 agents, lastAccess, accesses, hostCalls>>

AgentShared(n) == [t |-> "agent", n |-> 1]

\* the object new HederaConversationalAgent(serverSigner, agentConfig) returns
Agent(n) == [t |-> "agent", n |-> n]

Rejected == [t |-> "rejected"]

\* the collaborator that throws after the lookup, if any
Failures == {"none", "parse", "signer", "agent"}

\* how await mirrorNode.requestAccount(accountId) ended
LookupSettled(outcome) == [kind |-> "lookupSettled", rejected |-> outcome = Rejected]

ParseEvent(accountInfo) ==
  [kind |-> "parse", parser |-> ParserFor(accountInfo),
   arg |-> options.privateKey, accountInfo |-> accountInfo]

SignerEvent(accountInfo) ==
  [kind |-> "ServerSigner", accountId |-> options.accountId,
   key |-> [parser |-> ParserFor(accountInfo), arg |-> options.privateKey],
   network |-> networkOf(options)]

AgentEvent ==
  [kind |-> "HederaConversationalAgent",
   config |-> agentConfig(options, plugin, stateManager)]

\* initialize() resuming after the mirror lookup in another way: "retry"
\* repeats a rejected lookup once, "fallback" treats a rejected lookup as a
\* null response, "clear" drops the held agent when a step throws
LookupSettlesVariant(c, outcome, fail, mode) ==
  /\ pc[c] = "awaitLookup"
  /\ LET id == Len(agents) + 1
         response == IF mode = "fallback" /\ outcome = Rejected THEN Null ELSE outcome
         lookups == Len(SelectSeq(events[c], LAMBDA e : e.kind = "requestAccount"))
         upToParse == <<LookupSettled(outcome), ParseEvent(response)>>
         upToSigner == upToParse \o <<SignerEvent(response)>>
         upToAgent == upToSigner \o <<AgentEvent>>
     IN
     IF mode = "retry" /\ outcome = Rejected /\ lookups < 2
     THEN /\ events' = [events EXCEPT ![c] = Append(@,
               [kind |-> "requestAccount", network |-> networkOf(options),
                accountId |-> options.accountId])]
          /\ UNCHANGED <<pc, lastSettled, conversationalAgent, awaited, agents>>
     ELSE IF response = Rejected \/ fail # "none"
     THEN /\ events' = [events EXCEPT ![c] = @ \o
               ( IF response = Rejected
                   THEN <<LookupSettled(outcome)>> \o Catch(Error("Network error", c))
                 ELSE IF fail = "parse"
                   THEN upToParse \o Catch(Error("invalid private key", c))
                 ELSE IF fail = "signer"
                   THEN upToSigner \o Catch(Error("invalid signer", c))
                 ELSE upToAgent \o Catch(Error("invalid agent config", c)) )]
          /\ pc' = [pc EXCEPT ![c] = "rejected"]
          /\ lastSettled' = "rejected"
          /\ conversationalAgent' = IF mode = "clear" THEN Undefined
                                    ELSE conversationalAgent
          /\ UNCHANGED <<awaited, agents>>
     ELSE /\ events' = [events EXCEPT ![c] = @ \o upToAgent \o
               <<[kind |-> "agent.initialize", agent |-> id]>>]
          /\ agents' = Append(agents,
               [config |-> agentConfig(options, plugin, stateManager),
                init |-> "initializing"])
          /\ conversationalAgent' = Agent(id)
          /\ awaited' = [awaited EXCEPT ![c] = id]
          /\ pc' = [pc EXCEPT ![c] = "awaitAgentInit"]
          /\ UNCHANGED lastSettled
  /\ UNCHANGED <<options, stateManager, plugin, lastAccess, accesses, hostCalls>>

LookupSettlesRetrying(c, outcome, fail) == LookupSettlesVariant(c, outcome, fail, "retry")

LookupSettlesFallingBack(c, outcome, fail) ==
  LookupSettlesVariant(c, outcome, fail, "fallback")

LookupSettlesClearing(c, outcome, fail) == LookupSettlesVariant(c, outcome, fail, "clear")

\* initialize() from the settling of the mirror lookup to the await of the
\* host agent's initialize(), or to the catch block
LookupSettles(c, outcome, fail) ==
  /\ pc[c] = "awaitLookup"
  /\ LET id == Len(agents) + 1
         upToParse == <<LookupSettled(outcome), ParseEvent(outcome)>>
         upToSigner == upToParse \o <<SignerEvent(outcome)>>
         upToAgent == upToSigner \o <<AgentEvent>>
     IN
     IF outcome = Rejected \/ fail # "none"
     THEN /\ events' = [events EXCEPT ![c] = @ \o
               ( IF outcome = Rejected
                   THEN <<LookupSettled(outcome)>> \o Catch(Error("Network error", c))
                 ELSE IF fail = "parse"
                   THEN upToParse \o Catch(Error("invalid private key", c))
                 ELSE IF fail = "signer"
                   THEN upToSigner \o Catch(Error("invalid signer", c))
                 ELSE upToAgent \o Catch(Error("invalid agent config", c)) )]
          /\ pc' = [pc EXCEPT ![c] = "rejected"]
          /\ lastSettled' = "rejected"
          /\ UNCHANGED <<conversationalAgent, awaited, agents>>
     ELSE /\ events' = [events EXCEPT ![c] = @ \o upToAgent \o
               <<[kind |-> "agent.initialize", agent |-> id]>>]
          /\ agents' = Append(agents,
               [config |-> agentConfig(options, plugin, stateManager),
                init |-> "initializing"])
          /\ conversationalAgent' = Agent(id)
          /\ awaited' = [awaited EXCEPT ![c] = id]
          /\ pc' = [pc EXCEPT ![c] = "awaitAgentInit"]
          /\ UNCHANGED lastSettled
  /\ UNCHANGED <<options, stateManager, plugin, lastAccess, accesses, hostCalls>>

\* initialize() calling the host agent's initialize() again whenever it throws
AgentInitSettlesRetrying(c, ok) ==
  /\ pc[c] = "awaitAgentInit"
  /\ IF ok
     THEN /\ agents' = [agents EXCEPT ![awaited[c]].init = "ready"]
          /\ events' = [events EXCEPT ![c] = Append(@, Settle("resolved"))]
          /\ pc' = [pc EXCEPT ![c] = "resolved"]
          /\ lastSettled' = "resolved"
     ELSE /\ agents' = [agents EXCEPT ![awaited[c]].init =
               IF @ = "initializing" THEN "initializing again" ELSE "initializing"]
          /\ UNCHANGED <<events, pc, lastSettled>>
  /\ UNCHANGED <<options, stateManager, plugin, conversationalAgent, awaited,
                 lastAccess, accesses, hostCalls>>

\* initialize() from the settling of the host agent's initialize() to its end
AgentInitSettles(c, ok) ==
  /\ pc[c] = "awaitAgentInit"
  /\ IF ok
     THEN /\ agents' = [agents EXCEPT ![awaited[c]].init = "ready"]
          /\ events' = [events EXCEPT ![c] = Append(@, Settle("resolved"))]
          /\ pc' = [pc EXCEPT ![c] = "resolved"]
          /\ lastSettled' = "resolved"
     ELSE /\ agents' = [agents EXCEPT ![awaited[c]].init = "failed"]
          /\ events' = [events EXCEPT ![c] = @ \o
               Catch(Error("agent initialization failed", c))]
          /\ pc' = [pc EXCEPT ![c] = "rejected"]
          /\ lastSettled' = "rejected"
  /\ UNCHANGED <<options, stateManager, plugin, conversationalAgent, awaited,
                 lastAccess, accesses, hostCalls>>

\* ------------------------------------------------------------ accessors

Messages == {Str(<<"Find all AI agents">>)}
Histories == {Undefined, Arr(<<[type |-> "human", content |-> "Hello"]>>)}

\* how the host agent's processMessage settles
HostOutcomes ==
  { [t |-> "resolved", value |-> [output |-> "Agent response"]],
    [t |-> "rejected", error |-> "Agent error"] }

HostArgumentsNoHistory(message, chatHistory) == <<message, Arr(<<>>)>>

\* the arguments of this.conversationalAgent.processMessage(message, chatHistory)
\* under the default parameter chatHistory = []
HostArguments(message, chatHistory) == <<message, Default(chatHistory, Arr(<<>>))>>

\* processMessage(message, chatHistory = []); outcome is how the host agent's
\* promise, which the method returns, settles
ProcessMessage(message, chatHistory, outcome) ==
  /\ accesses < MaxAccesses
  /\ accesses' = accesses + 1
  /\ IF ~Truthy(conversationalAgent)
     THEN /\ lastAccess' = [op |-> "processMessage", threw |-> NotInitializedError]
          /\ UNCHANGED hostCalls
     ELSE /\ lastAccess' =
               [op |-> "processMessage", agent |-> conversationalAgent,
                args |-> <<message, chatHistory>>,
                message |-> HostArguments(message, chatHistory)[1],
                chatHistory |-> HostArguments(message, chatHistory)[2],
                host |-> outcome, result |-> outcome]
          /\ hostCalls' = hostCalls + 1
  /\ UNCHANGED <<options, stateManager, plugin, conversationalAgent, pc, awaited,
                 agents, events, lastSettled>>

\* getPlugin()
getPlugin == plugin

\* StandardsKit.getStateManager()
getKitStateManager == stateManager

\* getConversationalAgent()
GetConversationalAgent ==
  /\ accesses < MaxAccesses
  /\ accesses' = accesses + 1
  /\ lastAccess' =
       IF ~Truthy(conversationalAgent)
       THEN [op |-> "getConversationalAgent", threw |-> NotInitializedError]
       ELSE [op |-> "getConversationalAgent", returned |-> conversationalAgent]
  /\ UNCHANGED <<options, stateManager, plugin, conversationalAgent, pc, awaited,
                 agents, events, lastSettled, hostCalls>>

\* ------------------------------------------------------------ OpenConvAIPlugin

VARIABLES
  tools,               \* OpenConvAIPlugin.tools
  pluginStateManager,  \* OpenConvAIPlugin.stateManager
  context,             \* BasePlugin.context
  pcPlugin,            \* where each plugin initialize(context) call stands
  argument,            \* the context argument of each plugin initialize call
  builders,            \* the HCS10Builder objects constructed
  statesCreated,       \* number of OpenConvaiState objects the plugin created
  pluginLog,           \* per initialize call: the line it wrote to the logger
  cleanups,            \* number of cleanup() calls made
  cleanupLogs,         \* number of lines cleanup() wrote to a logger
  constructedWith,     \* the arguments of new OpenConvAIPlugin(...)
  heldCopy,            \* what a caller saw in the array getTools() returned to it
  aliased,             \* whether that array is still the one this.tools refers to
  detached             \* the contents of that array once this.tools refers to another

pluginVars == <<tools, pluginStateManager, context, pcPlugin, argument, builders,
                statesCreated, pluginLog, cleanups, cleanupLogs, constructedWith,
                heldCopy, aliased, detached>>

\* this.tools is assigned a new array: an array a caller holds stays as it is
DetachHeld ==
  /\ aliased' = FALSE
  /\ detached' = IF aliased THEN tools ELSE detached

\* this.tools is not assigned
KeepHeld == UNCHANGED <<aliased, detached>>

vars == <<kitVars, pluginVars>>

PluginCalls == 1..MaxPluginInits

ToolClassesProfileLast ==
  << "RegisterAgentTool", "FindRegistrationsTool",
     "InitiateConnectionTool", "ListConnectionsTool", "SendMessageToConnectionTool",
     "CheckMessagesTool", "ConnectionMonitorTool", "ManageConnectionRequestsTool",
     "AcceptConnectionRequestTool", "ListUnapprovedConnectionRequestsTool",
     "RetrieveProfileTool" >>

\* no tool for a plugin constructed without credentials
ToolClassesWithCredentials ==
  IF constructedWith = <<>> THEN <<>> ELSE ToolClassesProfileLast

\* the tool classes in the order of the array literal of lines 76-132
ToolClasses ==
  << "RegisterAgentTool", "FindRegistrationsTool", "RetrieveProfileTool",
     "InitiateConnectionTool", "ListConnectionsTool", "SendMessageToConnectionTool",
     "CheckMessagesTool", "ConnectionMonitorTool", "ManageConnectionRequestsTool",
     "AcceptConnectionRequestTool", "ListUnapprovedConnectionRequestsTool" >>

\* the name each tool class of the standards library gives its instances
ToolName(class) ==
  CASE class = "RegisterAgentTool" -> "register_agent"
    [] class = "FindRegistrationsTool" -> "find_registrations"
    [] class = "RetrieveProfileTool" -> "retrieve_profile"
    [] class = "InitiateConnectionTool" -> "initiate_connection"
    [] class = "ListConnectionsTool" -> "list_connections"
    [] class = "SendMessageToConnectionTool" -> "send_message_to_connection"
    [] class = "CheckMessagesTool" -> "check_messages"
    [] class = "ConnectionMonitorTool" -> "monitor_connections"
    [] class = "ManageConnectionRequestsTool" -> "manage_connection_requests"
    [] class = "AcceptConnectionRequestTool" -> "accept_connection_request"
    [] class = "ListUnapprovedConnectionRequestsTool" ->
         "list_unapproved_connection_requests"

\* the namespace the tools of the standards library carry
ToolNamespace == "hcs10"

\* new XTool({ hederaKit, hcs10Builder, logger })
NewTool(class, hederaKit, hcs10Builder, logger) ==
  [class |-> class, name |-> ToolName(class), namespace |-> ToolNamespace,
   hederaKit |-> hederaKit, hcs10Builder |-> hcs10Builder, logger |-> logger]

\* each host context brings its own logger
LoggerOf(hederaKit) ==
  IF hederaKit = Ref("hederaKitB") THEN Ref("loggerB") ELSE Ref("loggerA")

Context(k, sm) == [config |-> [hederaKit |-> k], stateManager |-> sm, logger |-> LoggerOf(k)]

\* contexts without an agent kit, with one, with one and a state manager, and
\* with another agent kit
Contexts ==
  { Context(Undefined, Undefined),
    Context(Ref("hederaKitA"), Undefined),
    Context(Ref("hederaKitA"), Ref("contextStateManager")),
    Context(Ref("hederaKitB"), Undefined) }

\* where catalogue construction throws: 0 nowhere, 1 in the builder's
\* constructor, k + 1 in the constructor of the k-th tool
FailPoints == 0..(Len(ToolClasses) + 1)

Log(level, message, logger) == [level |-> level, message |-> message, logger |-> logger]

\* initialize(context) up to the await of super.initialize(context), which
\* stores the context
PluginInitialize(i, ctx) ==
  /\ pcPlugin[i] = "notCalled"
  /\ \A j \in PluginCalls : j < i => pcPlugin[j] # "notCalled"
  /\ context' = ctx
  /\ argument' = [argument EXCEPT ![i] = ctx]
  /\ pcPlugin' = [pcPlugin EXCEPT ![i] = "awaitSuper"]
  /\ UNCHANGED <<tools, pluginStateManager, builders, statesCreated, pluginLog,
                 cleanups, cleanupLogs, constructedWith, heldCopy, aliased, detached>>

StateManagerAlwaysNew(ctx, created) == [t |-> "OpenConvaiState", n |-> created + 1]

\* (context.stateManager as IStateManager) || new OpenConvaiState()
StateManagerOf(ctx, created) ==
  Or(ctx.stateManager, [t |-> "OpenConvaiState", n |-> created + 1])

\* initialize(context) after the await, with a catalogue that is filled tool by
\* tool, so that a throwing constructor leaves the tools built before it
PluginInitializeResumesPushing(i, failAt) ==
  /\ pcPlugin[i] = "awaitSuper"
  /\ pcPlugin' = [pcPlugin EXCEPT ![i] = "done"]
  /\ LET ctx == argument[i]
         hederaKit == ctx.config.hederaKit
         sm == StateManagerOf(ctx, statesCreated)
         kitInTools == context.config.hederaKit
         hcs10Builder == [t |-> "HCS10Builder", n |-> Len(builders) + 1,
                          hederaKit |-> kitInTools, stateManager |-> sm]
         failed == Log("error", "Failed to initialize OpenConvAI plugin:",
                       context.logger)
     IN
     IF ~Truthy(hederaKit)
     THEN /\ pluginLog' = [pluginLog EXCEPT ![i] = Log("warn",
               "HederaKit not found in context. OpenConvAI tools will not be available.",
               context.logger)]
          /\ UNCHANGED <<tools, pluginStateManager, builders, statesCreated>>
          /\ KeepHeld
     ELSE /\ pluginStateManager' = sm
          /\ statesCreated' = IF Truthy(ctx.stateManager) THEN statesCreated
                              ELSE statesCreated + 1
          /\ IF ~Truthy(kitInTools)
             THEN \* initializeTools throws before the builder is constructed
                  /\ pluginLog' = [pluginLog EXCEPT ![i] = failed]
                  /\ UNCHANGED <<tools, builders>>
                  /\ KeepHeld
             ELSE IF failAt = 1
             THEN \* new HCS10Builder(...) throws
                  /\ pluginLog' = [pluginLog EXCEPT ![i] = failed]
                  /\ UNCHANGED <<tools, builders>>
                  /\ KeepHeld
             ELSE IF failAt > 1
             THEN \* a tool constructor throws: the array is never assigned
                  /\ builders' = Append(builders, hcs10Builder)
                  /\ pluginLog' = [pluginLog EXCEPT ![i] = failed]
                  /\ tools' = [k \in 1..(failAt - 2) |->
                                 NewTool(ToolClasses[k], kitInTools, hcs10Builder,
                                         context.logger)]
                  /\ DetachHeld
             ELSE /\ builders' = Append(builders, hcs10Builder)
                  /\ tools' = [k \in 1..Len(ToolClasses) |->
                                 NewTool(ToolClasses[k], kitInTools, hcs10Builder,
                                         context.logger)]
                  /\ pluginLog' = [pluginLog EXCEPT ![i] = Log("info",
                       "OpenConvAI Standards Agent Kit Plugin initialized successfully",
                       context.logger)]
                  /\ DetachHeld
  /\ UNCHANGED <<context, argument, cleanups, cleanupLogs, constructedWith, heldCopy>>

\* initialize(context) after the await: the guard on the agent kit, the state
\* manager, initializeTools() and the try/catch around them
PluginInitializeResumes(i, failAt) ==
  /\ pcPlugin[i] = "awaitSuper"
  /\ pcPlugin' = [pcPlugin EXCEPT ![i] = "done"]
  /\ LET ctx == argument[i]
         hederaKit == ctx.config.hederaKit
         sm == StateManagerOf(ctx, statesCreated)
         kitInTools == context.config.hederaKit
         hcs10Builder == [t |-> "HCS10Builder", n |-> Len(builders) + 1,
                          hederaKit |-> kitInTools, stateManager |-> sm]
         failed == Log("error", "Failed to initialize OpenConvAI plugin:",
                       context.logger)
     IN
     IF ~Truthy(hederaKit)
     THEN /\ pluginLog' = [pluginLog EXCEPT ![i] = Log("warn",
               "HederaKit not found in context. OpenConvAI tools will not be available.",
               context.logger)]
          /\ UNCHANGED <<tools, pluginStateManager, builders, statesCreated>>
          /\ KeepHeld
     ELSE /\ pluginStateManager' = sm
          /\ statesCreated' = IF Truthy(ctx.stateManager) THEN statesCreated
                              ELSE statesCreated + 1
          /\ IF ~Truthy(kitInTools)
             THEN \* initializeTools throws before the builder is constructed
                  /\ pluginLog' = [pluginLog EXCEPT ![i] = failed]
                  /\ UNCHANGED <<tools, builders>>
                  /\ KeepHeld
             ELSE IF failAt = 1
             THEN \* new HCS10Builder(...) throws
                  /\ pluginLog' = [pluginLog EXCEPT ![i] = failed]
                  /\ UNCHANGED <<tools, builders>>
                  /\ KeepHeld
             ELSE IF failAt > 1
             THEN \* a tool constructor throws: the array is never assigned
                  /\ builders' = Append(builders, hcs10Builder)
                  /\ pluginLog' = [pluginLog EXCEPT ![i] = failed]
                  /\ UNCHANGED tools
                  /\ KeepHeld
             ELSE /\ builders' = Append(builders, hcs10Builder)
                  /\ tools' = [k \in 1..Len(ToolClasses) |->
                                 NewTool(ToolClasses[k], kitInTools, hcs10Builder,
                                         context.logger)]
                  /\ pluginLog' = [pluginLog EXCEPT ![i] = Log("info",
                       "OpenConvAI Standards Agent Kit Plugin initialized successfully",
                       context.logger)]
                  /\ DetachHeld
  /\ UNCHANGED <<context, argument, cleanups, cleanupLogs, constructedWith, heldCopy>>

\* getTools()
getTools == tools

\* getStateManager()
getStateManager == pluginStateManager

\* cleanup() that forgets the state manager only
PluginCleanupKeepsTools ==
  /\ cleanups < MaxCleanups
  /\ cleanups' = cleanups + 1
  /\ pluginStateManager' = Undefined
  /\ cleanupLogs' = IF context # Undefined /\ Truthy(context.logger)
                    THEN cleanupLogs + 1
                    ELSE cleanupLogs
  /\ UNCHANGED <<tools, context, pcPlugin, argument, builders, statesCreated, pluginLog,
                 constructedWith, heldCopy, aliased, detached>>

\* cleanup() that empties the array in place (this.tools.length = 0)
PluginCleanupInPlace ==
  /\ cleanups < MaxCleanups
  /\ cleanups' = cleanups + 1
  /\ tools' = <<>>
  /\ pluginStateManager' = Undefined
  /\ cleanupLogs' = IF context # Undefined /\ Truthy(context.logger)
                    THEN cleanupLogs + 1
                    ELSE cleanupLogs
  /\ UNCHANGED <<context, pcPlugin, argument, builders, statesCreated, pluginLog,
                 constructedWith, heldCopy, aliased, detached>>

\* cleanup() that reads this.context.logger without the optional chaining, and
\* so cannot complete on a plugin that was never initialized
PluginCleanupNeedingContext ==
  /\ context # Undefined
  /\ cleanups < MaxCleanups
  /\ cleanups' = cleanups + 1
  /\ tools' = <<>>
  /\ pluginStateManager' = Undefined
  /\ cleanupLogs' = IF Truthy(context.logger) THEN cleanupLogs + 1 ELSE cleanupLogs
  /\ DetachHeld
  /\ UNCHANGED <<context, pcPlugin, argument, builders, statesCreated, pluginLog,
                 constructedWith, heldCopy>>

\* cleanup()
PluginCleanup ==
  /\ cleanups < MaxCleanups
  /\ cleanups' = cleanups + 1
  /\ tools' = <<>>
  /\ pluginStateManager' = Undefined
  /\ cleanupLogs' = IF context # Undefined /\ Truthy(context.logger)
                    THEN cleanupLogs + 1
                    ELSE cleanupLogs
  /\ DetachHeld
  /\ UNCHANGED <<context, pcPlugin, argument, builders, statesCreated, pluginLog,
                 constructedWith, heldCopy>>

\* a caller keeps the array that getTools() returns
HoldTools ==
  /\ heldCopy = Undefined
  /\ heldCopy' = getTools
  /\ aliased' = TRUE
  /\ UNCHANGED <<tools, pluginStateManager, context, pcPlugin, argument, builders,
                 statesCreated, pluginLog, cleanups, cleanupLogs, constructedWith,
                 detached>>

\* what the caller sees in the array it keeps
HeldView == IF aliased THEN tools ELSE detached

\* the property initializers of lines 33-34
PluginConstructedWith(args) ==
  /\ tools = <<>>
  /\ pluginStateManager = Undefined
  /\ context = Undefined
  /\ pcPlugin = [i \in PluginCalls |-> "notCalled"]
  /\ argument = [i \in PluginCalls |-> Undefined]
  /\ builders = <<>>
  /\ statesCreated = 0
  /\ pluginLog = [i \in PluginCalls |-> Undefined]
  /\ cleanups = 0
  /\ cleanupLogs = 0
  /\ constructedWith = args
  /\ heldCopy = Undefined
  /\ aliased = FALSE
  /\ detached = <<>>

\* new OpenConvAIPlugin(), as the StandardsKit constructor calls it
PluginConstructed == PluginConstructedWith(<<>>)

\* the arguments callers give to new OpenConvAIPlugin(...); the class declares
\* no constructor
ConstructorArguments == {<<>>, <<"0.0.12345", "mock-private-key">>}

\* ------------------------------------------------------------ specifications

\* one StandardsKit instance, its initialize() calls overlapping
Init == (\E opts \in KitBags : Construct(opts)) /\ PluginConstructed

Next ==
  \/ \E c \in Calls : CallInitialize(c) /\ UNCHANGED pluginVars
  \/ \E c \in Calls :
       /\ pc[c] = "awaitLookup"
       /\ \E r \in FewResponses \cup {Rejected}, f \in Failures :
            LookupSettles(c, r, f) /\ UNCHANGED pluginVars
  \/ \E c \in Calls, ok \in BOOLEAN : AgentInitSettles(c, ok) /\ UNCHANGED pluginVars
  \/ \E m \in Messages, h \in Histories, o \in HostOutcomes :
       ProcessMessage(m, h, o) /\ UNCHANGED pluginVars
  \/ GetConversationalAgent /\ UNCHANGED pluginVars

Spec == Init /\ [][Next]_vars

\* one initialize() call for every bag of optional fields
InitConfig == (\E opts \in OptionalBags : Construct(opts)) /\ PluginConstructed

NextConfig ==
  \/ CallInitialize(1) /\ UNCHANGED pluginVars
  \/ /\ pc[1] = "awaitLookup"
     /\ \E r \in {AccountInfo(Str(ED25519Tag)), Rejected}, f \in Failures :
          LookupSettles(1, r, f) /\ UNCHANGED pluginVars
  \/ \E ok \in BOOLEAN : AgentInitSettles(1, ok) /\ UNCHANGED pluginVars

SpecConfig == InitConfig /\ [][NextConfig]_vars

\* one initialize() call for every mirror-lookup response
InitKey == Construct(BaseOptions) /\ PluginConstructed

NextKey ==
  \/ CallInitialize(1) /\ UNCHANGED pluginVars
  \/ /\ pc[1] = "awaitLookup"
     /\ \E r \in LookupResponses \cup {Rejected}, f \in Failures :
          LookupSettles(1, r, f) /\ UNCHANGED pluginVars
  \/ \E ok \in BOOLEAN : AgentInitSettles(1, ok) /\ UNCHANGED pluginVars

SpecKey == InitKey /\ [][NextKey]_vars

\* one OpenConvAIPlugin instance driven by its host
InitPlugin ==
  /\ Construct(BaseOptions)
  /\ \E args \in ConstructorArguments : PluginConstructedWith(args)

NextPlugin ==
  \/ \E i \in PluginCalls, ctx \in Contexts : PluginInitialize(i, ctx) /\ UNCHANGED kitVars
  \/ \E i \in PluginCalls :
       /\ pcPlugin[i] = "awaitSuper"
       /\ \E failAt \in FailPoints :
            PluginInitializeResumes(i, failAt) /\ UNCHANGED kitVars
  \/ PluginCleanup /\ UNCHANGED kitVars

SpecPlugin == InitPlugin /\ [][NextPlugin]_vars

\* ---- the host agent loading the kit's own plugin

HostContextsWithoutKit(agent) ==
  { [config |-> [hederaKit |-> Undefined], stateManager |-> sm,
     logger |-> LoggerOf(Undefined)] :
      sm \in {Undefined, agent.config["pluginConfig"].appConfig.stateManager} }

\* the contexts a host agent hands to the plugins of its pluginConfig: its
\* agent kit, its logger, and the state manager of appConfig or none
HostContexts(agent) ==
  { [config |-> [hederaKit |-> Ref("hederaKitA")], stateManager |-> sm,
     logger |-> LoggerOf(Ref("hederaKitA"))] :
      sm \in {Undefined, agent.config["pluginConfig"].appConfig.stateManager} }

\* one StandardsKit instance whose host agent, inside its initialize(), calls
\* initialize(context) of the plugin it was given and waits for it
InitHost == (\E opts \in PluginBags : Construct(opts)) /\ PluginConstructed

NextHost ==
  \/ CallInitialize(1) /\ UNCHANGED pluginVars
  \/ /\ pc[1] = "awaitLookup"
     /\ \E r \in {AccountInfo(Str(ED25519Tag)), Rejected}, f \in Failures :
          LookupSettles(1, r, f) /\ UNCHANGED pluginVars
  \/ /\ pc[1] = "awaitAgentInit"
     /\ agents[awaited[1]].config["pluginConfig"].plugins[1] = plugin
     /\ \E ctx \in HostContexts(agents[awaited[1]]) :
          PluginInitialize(1, ctx) /\ UNCHANGED kitVars
  \/ /\ pcPlugin[1] = "awaitSuper"
     /\ \E failAt \in FailPoints :
          PluginInitializeResumes(1, failAt) /\ UNCHANGED kitVars
  \/ /\ pcPlugin[1] = "done"
     /\ \E ok \in BOOLEAN : AgentInitSettles(1, ok) /\ UNCHANGED pluginVars

SpecHost == InitHost /\ [][NextHost]_vars

\* ---- the initialize() calls of one instance with collaborators that return

\* the mirror lookup of call c returns or throws, and the call runs on
LookupReturns(c) ==
  /\ pc[c] = "awaitLookup"
  /\ \E r \in FewResponses \cup {Rejected}, f \in Failures :
       LookupSettles(c, r, f) /\ UNCHANGED pluginVars

\* the host agent's initialize() of call c returns or throws
AgentInitReturns(c) == \E ok \in BOOLEAN : AgentInitSettles(c, ok) /\ UNCHANGED pluginVars

InitLive == (\E opts \in KitBags : Construct(opts)) /\ PluginConstructed

NextLive ==
  \/ \E c \in Calls : CallInitialize(c) /\ UNCHANGED pluginVars
  \/ \E c \in Calls : LookupReturns(c)
  \/ \E c \in Calls : AgentInitReturns(c)

\* every awaited collaborator eventually returns or throws; callers are free
\* never to call
SpecLive ==
  /\ InitLive
  /\ [][NextLive]_vars
  /\ \A c \in Calls : WF_vars(LookupReturns(c)) /\ WF_vars(AgentInitReturns(c))

\* ---- one OpenConvAIPlugin instance and a caller that keeps a catalogue

InitRefs == Construct(BaseOptions) /\ PluginConstructed

NextRefs ==
  \/ \E i \in PluginCalls, ctx \in Contexts : PluginInitialize(i, ctx) /\ UNCHANGED kitVars
  \/ \E i \in PluginCalls :
       /\ pcPlugin[i] = "awaitSuper"
       /\ \E failAt \in FailPoints :
            PluginInitializeResumes(i, failAt) /\ UNCHANGED kitVars
  \/ PluginCleanup /\ UNCHANGED kitVars
  \/ HoldTools /\ UNCHANGED kitVars

SpecRefs == InitRefs /\ [][NextRefs]_vars

\* ------------------------------------------------------------ properties

EventsOf(c, kind) == SelectSeq(events[c], LAMBDA e : e.kind = kind)
Count(c, kind) == Len(EventsOf(c, kind))

ConfigurationError(c) == Error("Account ID and private key are required", c)

\* the result with which a settled initialize() call ended
ResultOf(c) == EventsOf(c, "settled")[1].result

NoneResolved == \A c \in Calls : pc[c] # "resolved"

\* C1: while no initialize() call has resolved (none made, one suspended at
\* the mirror lookup or at the host agent's initialize(), or all failed),
\* processMessage and getConversationalAgent fail with the not-initialized
\* error and the host agent's processMessage is never called.
C1_NotInitializedUntilResolved ==
  NoneResolved =>
    /\ ~Truthy(conversationalAgent)
    /\ hostCalls = 0
    /\ lastAccess # Undefined => lastAccess = [op |-> lastAccess.op,
                                               threw |-> NotInitializedError]

\* C2 as stated: once the instance is Failed it stays Failed.
C2_FailedIsTerminal == [][Lifecycle = "Failed" => Lifecycle' = "Failed"]_vars

InitializeCalled == \E c \in Calls : pc[c] = "notCalled" /\ pc'[c] # "notCalled"

\* C2 as amended: Failed is left only by a further initialize() call, which
\* with non-empty credentials issues a new mirror lookup and makes the
\* instance Initializing again; no other call changes a Failed instance.
C2_FailedLeftOnlyByInitialize ==
  [][ Lifecycle = "Failed" =>
        IF InitializeCalled /\ options.accountId # Str(<<>>)
                            /\ options.privateKey # Str(<<>>)
        THEN /\ Lifecycle' = "Initializing"
             /\ \E c \in Calls : /\ pc[c] = "notCalled"
                                 /\ pc'[c] = "awaitLookup"
                                 /\ Count(c, "requestAccount")' = 1
        ELSE Lifecycle' = "Failed" ]_vars

\* an initialize() call made on a Failed instance has resolved
C2_Witness ==
  \E c \in Calls : /\ pc[c] = "resolved"
                   /\ events[c][1] = [kind |-> "called", from |-> "Failed"]
                   /\ Lifecycle = "Ready"

\* C3: with an empty accountId or an empty privateKey every initialize()
\* call rejects with the configuration error, and no mirror lookup, key
\* parser, signer or host agent is ever reached.
C3_MissingCredentialsRejectFirst ==
  (options.accountId = Str(<<>>) \/ options.privateKey = Str(<<>>)) =>
    /\ agents = <<>>
    /\ conversationalAgent = Undefined
    /\ \A c \in Calls :
         /\ pc[c] \in {"notCalled", "rejected"}
         /\ pc[c] = "rejected" =>
              /\ ResultOf(c) = ConfigurationError(c)
              /\ \A k \in {"requestAccount", "parse", "ServerSigner",
                           "HederaConversationalAgent", "agent.initialize"} :
                   Count(c, k) = 0

C3_Witness ==
  /\ options.accountId # Str(<<>>)
  /\ options.privateKey = Str(<<>>)
  /\ pc[1] = "rejected"
  /\ pc[2] = "rejected"

\* the key-type tag of a lookup response, if it carries one
HasTag(accountInfo) ==
  /\ accountInfo.t = "obj"
  /\ accountInfo.key.t = "obj"
  /\ accountInfo.key.type.t = "str"

\* 'ecdsa' occurs in the tag, each letter in either case
ContainsEcdsaAnyCase(tag) ==
  \E i \in 1..(Len(tag) - 4) :
    /\ tag[i] \in {"e", "E"}
    /\ tag[i + 1] \in {"c", "C"}
    /\ tag[i + 2] \in {"d", "D"}
    /\ tag[i + 3] \in {"s", "S"}
    /\ tag[i + 4] \in {"a", "A"}

LookupRejected(c) ==
  /\ pc[c] = "rejected"
  /\ ResultOf(c) = Error("Network error", c)

\* C4: once the mirror lookup of an initialize() call has returned, exactly
\* one key parser has been invoked, with the caller's privateKey string
\* unchanged: the ECDSA parser if the response carries a type tag containing
\* 'ecdsa' in any letter case, the ED25519 parser for every other response.
C4_ParserFollowsKeyTypeTag ==
  \A c \in Calls :
    (pc[c] \notin {"notCalled", "awaitLookup"} /\ ~LookupRejected(c)) =>
      /\ Count(c, "parse") = 1
      /\ LET call == EventsOf(c, "parse")[1]
             info == call.accountInfo
         IN /\ call.arg = options.privateKey
            /\ call.parser \in {"fromStringECDSA", "fromStringED25519"}
            /\ call.parser = "fromStringECDSA" <=>
                 (HasTag(info) /\ ContainsEcdsaAnyCase(info.key.type.s))

\* a mixed-case tag has selected the ECDSA parser
C4_Witness ==
  /\ pc[1] = "resolved"
  /\ EventsOf(1, "parse")[1].accountInfo = AccountInfo(Str(<<"E", "c", "D", "s", "A">>))
  /\ EventsOf(1, "parse")[1].parser = "fromStringECDSA"

\* C5 as stated: every failing initialize() call has logged its failure
\* exactly once at error severity, with the exception it rejects with.
C5_EveryFailureLoggedOnce ==
  \A c \in Calls :
    pc[c] = "rejected" =>
      /\ Count(c, "log") = 1
      /\ EventsOf(c, "log")[1].level = "error"
      /\ EventsOf(c, "log")[1].error = ResultOf(c)

CollaboratorErrors(c) ==
  { Error(m, c) : m \in {"Network error", "invalid private key", "invalid signer",
                         "invalid agent config", "agent initialization failed"} }

\* C5 as amended: a call that fails after credential validation logs once at
\* error severity with the collaborator's exception and rejects with that same
\* exception; a call that fails credential validation rejects with the
\* configuration error and logs nothing.
C5_FailuresAfterValidationLoggedOnce ==
  \A c \in Calls :
    pc[c] = "rejected" =>
      IF Count(c, "requestAccount") = 0
      THEN /\ ResultOf(c) = ConfigurationError(c)
           /\ Count(c, "log") = 0
      ELSE /\ ResultOf(c) \in CollaboratorErrors(c)
           /\ Count(c, "log") = 1
           /\ EventsOf(c, "log")[1].level = "error"
           /\ EventsOf(c, "log")[1].error = ResultOf(c)
           /\ events[c][Len(events[c])].kind = "settled"
           /\ events[c][Len(events[c]) - 1].kind = "log"

\* every step after validation has failed in some call
C5_Witness ==
  /\ pc[1] = "rejected"
  /\ pc[2] = "rejected"
  /\ ResultOf(1) = Error("agent initialization failed", 1)
  /\ ResultOf(2) = Error("invalid signer", 2)

\* the configuration each constructed host agent was given
Configs == {agents[a].config : a \in DOMAIN agents}

Supplied(field) == options[field] # Undefined

\* C6: the plugin list handed to the host agent is the kit's own plugin, then
\* the caller's additionalPlugins in their order (none when the list is
\* absent), then the host core plugins in the supplier's order.
C6_PluginOrder ==
  \A cfg \in Configs :
    LET plugins == cfg["pluginConfig"].plugins
        extra == IF Supplied("additionalPlugins") THEN options.additionalPlugins.a
                 ELSE <<>>
        n == Len(extra)
    IN /\ Len(plugins) = 1 + n + Len(HederaCorePlugins)
       /\ plugins[1] = plugin
       /\ plugin = OwnPlugin
       /\ \A i \in 1..n : plugins[1 + i] = extra[i]
       /\ \A j \in 1..Len(HederaCorePlugins) : plugins[1 + n + j] = HederaCorePlugins[j]

C6_Witness ==
  /\ agents # <<>>
  /\ options.additionalPlugins = Arr(<<Ref("mockPluginB"), Ref("mockPluginA")>>)

DefaultTextIn(text) ==
  \E i \in DOMAIN text :
    text[i] = "You are a helpful assistant managing Hedera HCS-10 connections and messages."

\* C7 as stated: a supplied customSystemMessagePreamble is the preamble, an
\* absent one gives the default text.
C7_SuppliedPreambleReplacesDefault ==
  \A cfg \in Configs :
    IF Supplied("customSystemMessagePreamble")
    THEN /\ cfg["customSystemMessagePreamble"] = options.customSystemMessagePreamble
         /\ ~DefaultTextIn(cfg["customSystemMessagePreamble"].s)
    ELSE DefaultTextIn(cfg["customSystemMessagePreamble"].s)

\* C7 as amended: a supplied non-empty customSystemMessagePreamble is the
\* preamble, with nothing of the default text; an absent or empty one gives
\* the default text, which embeds the caller's accountId.
C7_NonEmptyPreambleReplacesDefault ==
  \A cfg \in Configs :
    LET preamble == cfg["customSystemMessagePreamble"]
    IN IF Supplied("customSystemMessagePreamble")
          /\ options.customSystemMessagePreamble # Str(<<>>)
       THEN /\ preamble = options.customSystemMessagePreamble
            /\ ~DefaultTextIn(preamble.s)
       ELSE /\ DefaultTextIn(preamble.s)
            /\ preamble.s[1] = "You are a helpful assistant managing Hedera HCS-10 connections and messages."
            /\ \E i \in DOMAIN preamble.s : <<preamble.s[i]>> = options.accountId.s

C7_Witness ==
  /\ agents # <<>>
  /\ options.customSystemMessagePreamble = CustomPreamble
  /\ agents[1].config["customSystemMessagePreamble"] = CustomPreamble

\* C8: operationalMode, openAIModelName and verbose of the configuration, and
\* the network of the mirror lookup and of the signer, are the caller's
\* values when supplied and 'autonomous', 'gpt-4o', false and 'testnet'
\* otherwise.
C8_DefaultsAndOverrides ==
  /\ \A cfg \in Configs :
       /\ cfg["operationalMode"] = IF Supplied("operationalMode")
                                   THEN options.operationalMode
                                   ELSE Str(<<"autonomous">>)
       /\ cfg["openAIModelName"] = IF Supplied("openAIModelName")
                                   THEN options.openAIModelName
                                   ELSE Str(<<"gpt-4o">>)
       /\ cfg["verbose"] = IF Supplied("verbose") THEN options.verbose
                           ELSE Bool(FALSE)
  /\ \A c \in Calls :
       \A i \in DOMAIN events[c] :
         events[c][i].kind \in {"requestAccount", "ServerSigner"} =>
           events[c][i].network = IF Supplied("network") THEN options.network
                                  ELSE Str(<<"testnet">>)

\* a configuration built from a bag that supplies none of them
C8_Witness ==
  /\ pc[1] = "resolved"
  /\ options = BaseOptions
  /\ Count(1, "ServerSigner") = 1

\* the optional fields C9 names
OptionalFields ==
  {"verbose", "userAccountId", "customSystemMessagePostamble",
   "scheduleUserTransactionsInBytesMode", "mirrorNodeConfig", "disableLogging"}

\* C9 as stated: the configuration has an optional field exactly when the
\* caller supplied it.
C9_OptionalFieldsOnlyWhenSupplied ==
  \A cfg \in Configs :
    \A f \in OptionalFields : (f \in DOMAIN cfg) <=> Supplied(f)

\* C9 as amended: postamble, byte-mode flag, mirror-node overrides and
\* logging-disable flag are in the configuration exactly when supplied, with
\* the caller's value; verbose is always there (false when not supplied) and
\* userAccountId is always there (undefined when not supplied).
C9_SpreadFieldsOnlyWhenSupplied ==
  \A cfg \in Configs :
    /\ \A f \in {"customSystemMessagePostamble", "scheduleUserTransactionsInBytesMode",
                 "mirrorNodeConfig", "disableLogging"} :
         /\ (f \in DOMAIN cfg) <=> Supplied(f)
         /\ f \in DOMAIN cfg => cfg[f] = options[f]
    /\ "verbose" \in DOMAIN cfg
    /\ ~Supplied("verbose") => cfg["verbose"] = Bool(FALSE)
    /\ "userAccountId" \in DOMAIN cfg
    /\ cfg["userAccountId"] = options.userAccountId

\* a configuration built from a bag that supplies an empty postamble and a
\* false logging-disable flag, and neither overrides nor verbose
C9_Witness ==
  /\ agents # <<>>
  /\ options.customSystemMessagePostamble = Str(<<>>)
  /\ options.disableLogging = Bool(FALSE)
  /\ ~Supplied("mirrorNodeConfig")
  /\ ~Supplied("verbose")

ExpectedToolNames ==
  << "register_agent", "find_registrations", "retrieve_profile",
     "initiate_connection", "list_connections", "send_message_to_connection",
     "check_messages", "monitor_connections", "manage_connection_requests",
     "accept_connection_request", "list_unapproved_connection_requests" >>

Succeeded(i) ==
  /\ pluginLog[i] # Undefined
  /\ pluginLog[i].message =
       "OpenConvAI Standards Agent Kit Plugin initialized successfully"

\* C10: when a plugin initialize(context) call ends with the success line,
\* getTools() returns the eleven tools in the fixed order, with pairwise
\* distinct names and one namespace tag.
C10_ElevenToolsInOrder ==
  [][ \A i \in PluginCalls :
        (~Succeeded(i) /\ Succeeded(i)') =>
          /\ Truthy(argument[i].config.hederaKit)
          /\ Len(getTools') = 11
          /\ [k \in 1..Len(getTools') |-> getTools'[k].name] = ExpectedToolNames
          /\ \A k, l \in 1..Len(getTools') :
               k # l => getTools'[k].name # getTools'[l].name
          /\ \A k, l \in 1..Len(getTools') :
               getTools'[k].namespace = getTools'[l].namespace ]_vars

C10_Witness ==
  /\ Succeeded(2)
  /\ ~Succeeded(1)
  /\ Len(getTools) = 11

\* the plugin initialize(context) call i runs from its await to its end
Resumes(i) == pcPlugin[i] = "awaitSuper" /\ pcPlugin'[i] = "done"

\* C11: when a plugin initialize(context) call whose context has no agent
\* kit ends, whatever the plugin held before, it has logged a warning and
\* getTools() returns the empty sequence.
C11_NoKitLeavesCatalogueEmpty ==
  [][ \A i \in PluginCalls :
        (Resumes(i) /\ ~Truthy(argument[i].config.hederaKit)) =>
          /\ pluginLog'[i].level = "warn"
          /\ getTools' = <<>> ]_vars

\* C12: when catalogue construction fails inside a plugin initialize(context)
\* call, whatever the plugin held before, the call ends with an error line
\* and no success line, and getTools() returns the empty sequence.
C12_FailedConstructionLeavesCatalogueEmpty ==
  [][ \A i \in PluginCalls :
        (Resumes(i) /\ pluginLog'[i].level = "error") =>
          /\ pluginLog'[i].message = "Failed to initialize OpenConvAI plugin:"
          /\ ~Succeeded(i)'
          /\ getTools' = <<>> ]_vars

NoPluginCallEnded == \A i \in PluginCalls : pcPlugin[i] # "done"

\* C13: getTools() is empty until an initialize call has run; cleanup()
\* leaves getTools() empty and getStateManager() undefined; and an empty
\* catalogue or an undefined state manager changes only when an initialize
\* call runs, so repeated getTools() calls in between keep returning empty.
C13_EmptyBeforeInitializeAndAfterCleanup ==
  /\ [](NoPluginCallEnded => getTools = <<>> /\ getStateManager = Undefined)
  /\ [][ cleanups' # cleanups => getTools' = <<>> /\ getStateManager' = Undefined ]_vars
  /\ [][ (getTools = <<>> /\ getTools' # <<>>) => \E i \in PluginCalls : Resumes(i) ]_vars
  /\ [][ (getStateManager = Undefined /\ getStateManager' # Undefined) =>
           \E i \in PluginCalls : Resumes(i) ]_vars

\* a cleanup() after a successful initialize has emptied the catalogue
C13_Witness ==
  /\ Succeeded(1)
  /\ pcPlugin[2] = "notCalled"
  /\ cleanups = 1
  /\ getTools = <<>>
  /\ getStateManager = Undefined

\* C14: when a plugin initialize(context) call ends with the success line,
\* getStateManager() returns context.stateManager itself if the context has
\* one, and otherwise a state manager the plugin has just constructed, which
\* is none of the context's objects and none of the state managers it has
\* constructed or held before.
C14_StateManagerReusedOrNew ==
  [][ \A i \in PluginCalls :
        (Resumes(i) /\ Succeeded(i)') =>
          IF argument[i].stateManager # Undefined
          THEN /\ getStateManager' = argument[i].stateManager
               /\ statesCreated' = statesCreated
          ELSE /\ getStateManager'.t = "OpenConvaiState"
               /\ statesCreated' = statesCreated + 1
               /\ getStateManager'.n = statesCreated'
               /\ getStateManager' # getStateManager
               /\ getStateManager' \notin
                    {argument[i].logger, argument[i].config.hederaKit,
                     argument[i].stateManager} ]_vars

\* the first call reused its context's state manager, the second built one
C14_Witness ==
  /\ Succeeded(1)
  /\ Succeeded(2)
  /\ argument[1].stateManager = Ref("contextStateManager")
  /\ argument[2].stateManager = Undefined
  /\ getStateManager = [t |-> "OpenConvaiState", n |-> 1]

\* C15: a plugin initialize(context) call that ends with the success line has
\* constructed exactly one builder, bound to the agent kit of its context and
\* to the plugin's state manager, and each of the eleven tools was constructed
\* with that builder, that agent kit and the logger of that context.
C15_OneBuilderOfTheCallsContext ==
  [][ \A i \in PluginCalls :
        (Resumes(i) /\ Succeeded(i)') =>
          /\ Len(builders') = Len(builders) + 1
          /\ LET hcs10Builder == builders'[Len(builders')]
             IN /\ hcs10Builder.hederaKit = argument[i].config.hederaKit
                /\ hcs10Builder.stateManager = getStateManager'
                /\ Len(getTools') = 11
                /\ \A k \in 1..Len(getTools') :
                     /\ getTools'[k].hcs10Builder = hcs10Builder
                     /\ getTools'[k].hederaKit = argument[i].config.hederaKit
                     /\ getTools'[k].logger = argument[i].logger ]_vars

NotYetCalled == \A c \in Calls : pc[c] = "notCalled"

\* C16: for every options bag, empty credentials included, the constructed
\* instance has made no mirror lookup, parsed no key and built no signer and
\* no host agent as long as initialize() has not been called, and getPlugin()
\* and getStateManager() return objects in every state from construction on.
C16_ConstructionIsInert ==
  /\ getPlugin = OwnPlugin
  /\ getKitStateManager \in {Ref("customStateManager"), Ref("OpenConvaiState")}
  /\ NotYetCalled =>
       /\ \A c \in Calls : events[c] = <<>>
       /\ agents = <<>>
       /\ conversationalAgent = Undefined
       /\ lastSettled = "none"

\* an instance constructed with an empty private key, not yet initialized,
\* has answered an accessor call
C16_Witness ==
  /\ options.privateKey = Str(<<>>)
  /\ NotYetCalled
  /\ lastAccess # Undefined

\* C17: getStateManager() returns in every state the state manager of the
\* options when one was supplied and the default built at construction
\* otherwise, and every host agent of the instance was given that object as
\* pluginConfig.appConfig.stateManager.
C17_OneStateManager ==
  /\ getKitStateManager = IF Supplied("stateManager") THEN options.stateManager
                          ELSE Ref("OpenConvaiState")
  /\ \A cfg \in Configs :
       cfg["pluginConfig"].appConfig.stateManager = getKitStateManager

\* two initialize() calls of an instance with a supplied state manager have
\* each built a host agent
C17_Witness ==
  /\ options.stateManager = Ref("customStateManager")
  /\ Len(agents) = 2
  /\ pc[2] = "resolved"

SomeResolved == \E c \in Calls : pc[c] = "resolved"

ProcessMessageCalled == accesses' = accesses + 1 /\ lastAccess'.op = "processMessage"

\* C18: once an initialize() call has resolved, a processMessage(text, history)
\* call makes one call to the held host agent, with the same text and the same
\* history ([] when the history is omitted), settles as the host agent's call
\* settles, and leaves the fields of the wrapper and its initialize() calls
\* as they were.
C18_ProcessMessageDelegatesVerbatim ==
  [][ (SomeResolved /\ ProcessMessageCalled) =>
        /\ Truthy(conversationalAgent)
        /\ hostCalls' = hostCalls + 1
        /\ lastAccess'.agent = conversationalAgent
        /\ lastAccess'.message = lastAccess'.args[1]
        /\ lastAccess'.chatHistory = IF lastAccess'.args[2] = Undefined THEN Arr(<<>>)
                                     ELSE lastAccess'.args[2]
        /\ lastAccess'.result = lastAccess'.host
        /\ UNCHANGED <<options, stateManager, plugin, conversationalAgent, pc,
                       awaited, agents, events, lastSettled>> ]_vars

\* after a successful initialize() a processMessage call without a history
\* has ended with the host agent's rejection, and one with a history with
\* the host agent's response
C18_Witness ==
  /\ pc[1] = "resolved"
  /\ accesses = 2
  /\ hostCalls = 2
  /\ lastAccess.op = "processMessage"
  /\ lastAccess.args[2] = Undefined
  /\ lastAccess.chatHistory = Arr(<<>>)
  /\ lastAccess.result.t = "rejected"

C20_BuiltOnce ==
  [][ Truthy(conversationalAgent) =>
        /\ conversationalAgent' = conversationalAgent
        /\ Len(agents') = Len(agents) ]_vars

\* C20 as amended: every initialize() call that gets as far as constructing
\* the host agent builds a configuration and a new host agent, which replaces
\* the held one; the configuration it builds equals those built before; no
\* other step builds or replaces a host agent; and a configuration, once
\* built, never changes.
C20_RebuiltByEachInitialize ==
  [][ /\ (conversationalAgent' # conversationalAgent \/ Len(agents') # Len(agents)) =>
           /\ \E c \in Calls : pc[c] = "awaitLookup" /\ pc'[c] = "awaitAgentInit"
           /\ Len(agents') = Len(agents) + 1
           /\ conversationalAgent' = [t |-> "agent", n |-> Len(agents')]
           /\ \A a \in DOMAIN agents :
                agents[a].config = agents'[Len(agents')].config
      /\ \A a \in DOMAIN agents : agents'[a].config = agents[a].config ]_vars

\* an initialize() call made on a Ready instance has replaced the held agent
C20_Witness ==
  /\ events[2] # <<>>
  /\ events[2][1] = [kind |-> "called", from |-> "Ready"]
  /\ Len(agents) = 2
  /\ conversationalAgent = [t |-> "agent", n |-> 2]

\* the collaborators an initialize() call reaches, in the order of the code
StepKinds ==
  <<"requestAccount", "parse", "ServerSigner", "HederaConversationalAgent",
    "agent.initialize">>

\* C21: an initialize() call that has passed credential validation has issued
\* exactly one mirror lookup, for the accountId of the options, and has
\* invoked a key parser, constructed a signer, constructed a host agent and
\* called the host agent's initialize at most once each.
C21_OneLookupNoRetry ==
  \A c \in Calls :
    /\ Count(c, "requestAccount") =
         IF pc[c] = "notCalled" \/ options.accountId = Str(<<>>)
                                \/ options.privateKey = Str(<<>>)
         THEN 0 ELSE 1
    /\ \A i \in DOMAIN events[c] :
         events[c][i].kind = "requestAccount" => events[c][i].accountId = options.accountId
    /\ \A k \in {"parse", "ServerSigner", "HederaConversationalAgent", "agent.initialize"} :
         Count(c, k) <= 1

\* a call whose lookup rejected and a call that ran to its end
C21_Witness ==
  /\ LookupRejected(1)
  /\ pc[2] = "resolved"
  /\ \A k \in DOMAIN StepKinds : Count(2, StepKinds[k]) = 1

\* the collaborators call c has reached, in the order it reached them
StepsOf(c) ==
  LET reached == SelectSeq(events[c],
                   LAMBDA e : \E k \in DOMAIN StepKinds : e.kind = StepKinds[k])
  IN [i \in DOMAIN reached |-> reached[i].kind]

\* the number of steps after which a call rejects with the given error
StepsBefore(message) ==
  CASE message = "Account ID and private key are required" -> 0
    [] message = "Network error" -> 1
    [] message = "invalid private key" -> 2
    [] message = "invalid signer" -> 3
    [] message = "invalid agent config" -> 4
    [] message = "agent initialization failed" -> 5

\* the mirror lookup of call c has rejected
LookupThrew(c) == \E i \in DOMAIN events[c] :
  events[c][i].kind = "lookupSettled" /\ events[c][i].rejected

\* C22: the collaborators an initialize() call has reached are an initial
\* part of: mirror lookup, key parser, signer, host agent, host agent's
\* initialize; a call that rejected went no further than the step that
\* threw; and a call whose mirror lookup rejected has rejected with that
\* error without a key parser, a signer or a host agent.
C22_StepsInOrderFailureStops ==
  \A c \in Calls :
    /\ Len(StepsOf(c)) <= Len(StepKinds)
    /\ \A i \in DOMAIN StepsOf(c) : StepsOf(c)[i] = StepKinds[i]
    /\ pc[c] = "rejected" => Len(StepsOf(c)) = StepsBefore(ResultOf(c).message)
    /\ LookupThrew(c) =>
         /\ pc[c] = "rejected"
         /\ ResultOf(c).message = "Network error"
         /\ StepsOf(c) = <<"requestAccount">>

\* one call stopped at the rejected lookup, the other at the signer
C22_Witness ==
  /\ LookupThrew(1)
  /\ pc[2] = "rejected"
  /\ StepsOf(2) = <<"requestAccount", "parse", "ServerSigner">>

\* C23: in every interleaving of initialize() and processMessage calls, once
\* some initialize() call has resolved, the agent that getConversationalAgent()
\* returns and processMessage delegates to has completed its own initialize().
C23_HeldAgentHasInitialized ==
  SomeResolved =>
    /\ conversationalAgent.t = "agent"
    /\ agents[conversationalAgent.n].init = "ready"

Settled(c) == pc[c] \in {"resolved", "rejected"}

\* C24: when the mirror lookup and the host agent's initialize() each
\* eventually return or throw, every initialize() call that is suspended
\* eventually settles, resolving or rejecting; a settled call has settled
\* once, as its last step, and has resolved exactly when it constructed a
\* host agent and logged no error; and a call whose mirror lookup threw has
\* rejected.
C24_EveryCallSettles ==
  /\ \A c \in Calls : (pc[c] \in {"awaitLookup", "awaitAgentInit"}) ~> Settled(c)
  /\ [](\A c \in Calls : Settled(c) =>
           /\ Count(c, "settled") = 1
           /\ events[c][Len(events[c])].kind = "settled"
           /\ pc[c] = "resolved" <=>
                (Count(c, "HederaConversationalAgent") = 1 /\ Count(c, "log") = 0))
  /\ [](\A c \in Calls : LookupThrew(c) => pc[c] = "rejected")

\* both calls have settled, one rejected by its mirror lookup, one resolved
C24_Witness ==
  /\ LookupThrew(1)
  /\ pc[1] = "rejected"
  /\ pc[2] = "resolved"
  /\ Lifecycle = "Ready"

C26_CatalogueEmptyOrFull == Len(getTools) \in {0, 11}

\* a tool constructor has thrown after the builder was constructed, on a
\* plugin that already held a catalogue
C26_Witness ==
  /\ Succeeded(1)
  /\ pluginLog[2] # Undefined
  /\ pluginLog[2].level = "error"
  /\ Len(builders) = 2
  /\ Len(getTools) = 11

\* C27: whenever getTools() is not empty, getStateManager() is defined and is
\* the state manager the builder of the catalogue was constructed with.
C27_CatalogueOnTheHeldStateManager ==
  getTools # <<>> =>
    /\ getStateManager # Undefined
    /\ \A k \in 1..Len(getTools) :
         getTools[k].hcs10Builder.stateManager = getStateManager

\* C28: the array a caller obtained from getTools() keeps the entries it had
\* when the caller obtained it, whatever cleanup() and initialize() calls
\* follow.
C28_HeldCatalogueUnchanged == heldCopy # Undefined => HeldView = heldCopy

\* a caller holds the eleven tools of the first initialize; since then a
\* cleanup() has run and a second initialize has built another catalogue
C28_Witness ==
  /\ heldCopy # Undefined
  /\ Len(heldCopy) = 11
  /\ cleanups = 1
  /\ Succeeded(2)
  /\ Len(getTools) = 11
  /\ getTools # heldCopy
  /\ HeldView = heldCopy

\* C29: cleanup() can be called and completes in every state, also before any
\* initialize and right after another cleanup(); it leaves the catalogue
\* empty and the state manager undefined; and an initialize(context) call that
\* ends with the success line after a cleanup() leaves the eleven tools and
\* a state manager.
C29_CleanupSafeAndIdempotent ==
  /\ [](cleanups < MaxCleanups => ENABLED PluginCleanup)
  /\ [][ cleanups' = cleanups + 1 =>
           /\ getTools' = <<>>
           /\ getStateManager' = Undefined
           /\ pcPlugin' = pcPlugin /\ context' = context ]_vars
  /\ [][ (cleanups > 0 /\ \E i \in PluginCalls : Resumes(i) /\ Succeeded(i)') =>
           /\ Len(getTools') = 11
           /\ getStateManager' # Undefined ]_vars

\* cleanup() ran on a fresh plugin and again right after, then an initialize
\* succeeded
C29_Witness ==
  /\ cleanups = 2
  /\ cleanupLogs = 0
  /\ Succeeded(1)
  /\ Len(getTools) = 11

\* C30: an initialize() call that rejects before a host agent is constructed
\* (at credential validation, the mirror lookup, key parsing or signer
\* construction) leaves the held agent as it was, absent or the agent of an
\* earlier call; and no step of any initialize() call changes the plugin or
\* the state manager of the instance.
C30_EarlyFailureKeepsHeldAgent ==
  [][ /\ \A c \in Calls :
           (pc[c] \in {"notCalled", "awaitLookup"} /\ pc'[c] = "rejected"
              /\ Count(c, "HederaConversationalAgent")' = 0) =>
             /\ conversationalAgent' = conversationalAgent
             /\ agents' = agents
      /\ getPlugin' = getPlugin
      /\ getKitStateManager' = getKitStateManager ]_vars

\* the second call failed at signer construction while the instance held the
\* agent of the first call, and still holds it
C30_Witness ==
  /\ pc[1] = "resolved"
  /\ pc[2] = "rejected"
  /\ ResultOf(2).message = "invalid signer"
  /\ Len(agents) = 1
  /\ conversationalAgent = [t |-> "agent", n |-> 1]


====
